---- MODULE Spec2Model ----
(***************************************************************************)
(* Model of src/src/env.rs: the scoped guards Pushd and Pushenv over the   *)
(* process working directory and the environment, and the global shell     *)
(* lock (MUTEX + the thread-local LOCKED flag) that serialises them.       *)
(* Every thread runs calls to pushd / pushenv and drops of its guards;     *)
(* each call is split at the points where it touches shared state.         *)
(***************************************************************************)
EXTENDS Naturals, Sequences, FiniteSets

\* ---------------------------------------------------------------- bounds
NThreads == 2
\* Guards a thread holds at once, at most.
MaxDepth == 2

Threads == 1..NThreads
NoThread == 0

\* ------------------------------------------------------ the outside world
\* Directories that exist, and the paths a caller may pass to pushd.
Dirs == {"/a", "/a/b"}
Paths == {"/a", "/a/b", "b", "/l", "/missing"}
NoDir == "<none>"

\* The environment: TESTVAR is the variable the callers guard and unguarded
\* code touches, OTHER stands for the rest of the environment.
Keys == {"TESTVAR", "OTHER"}
GuardedKeys == {"TESTVAR"}
Vals == {"", "x"}

\* Option<T>: None is the empty tuple, Some(v) the one-element tuple.
None == <<>>
Some(v) == <<v>>

\* What the OS makes of chdir(path) when the working directory is c: the
\* canonical directory entered, or NoDir when the target cannot be entered.
\* "b" is relative, "/l" is a symbolic link to /a/b.
Resolve(c, path) ==
    CASE path = "/a" -> "/a"
      [] path = "/a/b" -> "/a/b"
      [] path = "/l" -> "/a/b"
      [] path = "b" -> IF c = "/a" THEN "/a/b" ELSE NoDir
      [] OTHER -> NoDir

\* ------------------------------------------------------------------ state
VARIABLES
    cwd,          \* the process working directory
    env,          \* the process environment: Keys -> Option(Vals)
    MUTEX_INIT,   \* the Once: "new", "running" or "done"
    mutexWrites,  \* how many times ptr::write initialised MUTEX
    holder,       \* the thread holding MUTEX, or NoThread
    poisoned,     \* MUTEX's poison flag
    LOCKED,       \* the thread-local flag, one per thread
    pc,           \* where each thread is
    cur,          \* the locals of each thread's call or drop in progress
    guards,       \* each thread's live guards, oldest first
    panicking,    \* "no", or what the panic the thread unwinds from is about
    aborted       \* the process aborted (a panic while unwinding)

vars == <<cwd, env, MUTEX_INIT, mutexWrites, holder, poisoned, LOCKED, pc,
          cur, guards, panicking, aborted>>

\* The locals of a call: op is the operation, arg the path given to pushd,
\* cwd0 the working directory when pushd's lock() returned, fatal the error
\* or panic the call or drop ran into; the other fields become
\* the guard (Pushd: key "cwd", prev = Some(prev_dir), value = dir;
\* Pushenv: key, prev = prev_value, value; owns = _guard.guard.is_some()).
NoCall ==
    [op |-> "none", kind |-> "none", arg |-> NoDir, key |-> "cwd",
     prev |-> None, value |-> "", owns |-> FALSE, fatal |-> "none",
     cwd0 |-> NoDir]

GuardOf(c) ==
    [kind |-> c.kind, key |-> c.key, prev |-> c.prev, value |-> c.value,
     owns |-> c.owns]

\* The thread is unwinding from a panic (std::thread::panicking()).
Unwinding(t) == panicking[t] # "no"

RemoveAt(s, i) == [j \in 1..(Len(s) - 1) |-> IF j < i THEN s[j] ELSE s[j + 1]]

Init ==
    /\ cwd \in Dirs
    /\ env \in [Keys -> {None} \cup {Some(v) : v \in Vals}]
    /\ env["OTHER"] = Some("x")
    /\ MUTEX_INIT = "new"
    /\ mutexWrites = 0
    /\ holder = NoThread
    /\ poisoned = FALSE
    /\ LOCKED = [t \in Threads |-> FALSE]
    /\ pc = [t \in Threads |-> "idle"]
    /\ cur = [t \in Threads |-> NoCall]
    /\ guards = [t \in Threads |-> <<>>]
    /\ panicking = [t \in Threads |-> "no"]
    /\ aborted = FALSE

\* -------------------------------------------------- GlobalShellLock::lock
\* The first statement of the body that follows lock().
BodyStart(op) == IF op = "pushd" THEN "pd_prev" ELSE "pe_read"

\* Mutant: the directory guard forgets to go back.
MutRestoreDirStays(c) == cwd

\* Mutant: an empty prior value is taken for an absent one.
MutRestoreEnvEmptyIsAbsent(e, c) ==
    IF c.prev # None /\ c.prev[1] # ""
    THEN [e EXCEPT ![c.key] = Some(c.prev[1])]
    ELSE [e EXCEPT ![c.key] = None]

\* Mutant: the assertion is left out.
MutCheckAlwaysPasses(live, c) == TRUE

\* Mutant: every call takes the mutex, nested or not.
MutReentrantNever(t) == FALSE

\* Mutant: LOCKED as one flag of the process instead of one per thread.
MutReentrantShared(t) == \E u \in Threads : LOCKED[u]

\* `if LOCKED.with(|it| it.get())`: the calling thread's own flag.
Reentrant(t) == LOCKED[t]

\* The locals of Pushd::new or Pushenv::new once lock() has returned.
Entered(op, owns) ==
    [NoCall EXCEPT !.op = op, !.owns = owns,
                   !.kind = IF op = "pushd" THEN "dir" ELSE "env",
                   !.cwd0 = IF op = "pushd" THEN cwd ELSE NoDir]

\* pushd(..) or pushenv(..) is called and GlobalShellLock::lock() reads the
\* flag (line 108-110): a thread inside a session gets a token that owns
\* nothing and goes straight on; any other thread goes on to call_once,
\* which it passes at once when the Once is already done. Which of the two
\* constructors called lock(), and with what arguments, is drawn where it
\* is first used.
Call(t, op) ==
    /\ ~aborted /\ pc[t] = "idle" /\ Len(guards[t]) < MaxDepth
    /\ IF Reentrant(t)
       THEN /\ cur' = [cur EXCEPT ![t] = Entered(op, FALSE)]
            /\ pc' = [pc EXCEPT ![t] = BodyStart(op)]
       ELSE /\ cur' = [cur EXCEPT ![t] = [NoCall EXCEPT !.op = "lock"]]
            /\ pc' = [pc EXCEPT ![t] =
                        IF MUTEX_INIT = "done" THEN "lock_mutex" ELSE "lock_once"]
    /\ UNCHANGED <<cwd, env, MUTEX_INIT, mutexWrites, holder, poisoned,
                   LOCKED, guards, panicking, aborted>>

\* Mutant: a plain "initialised yet?" test in place of the Once: every
\* caller that finds the mutex unwritten goes on to write it.
MutLockCallOnceRacy(t) ==
    /\ ~aborted /\ pc[t] = "lock_once"
    /\ MUTEX_INIT' = MUTEX_INIT
    /\ pc' = [pc EXCEPT ![t] =
                IF MUTEX_INIT = "done" THEN "lock_mutex" ELSE "lock_write"]
    /\ UNCHANGED <<cwd, env, mutexWrites, holder, poisoned, LOCKED, cur,
                   guards, panicking, aborted>>

\* MUTEX_INIT.call_once: the first caller runs the closure, a caller that
\* arrives while it runs waits, later callers pass.
LockCallOnce(t) ==
    /\ ~aborted /\ pc[t] = "lock_once"
    /\ MUTEX_INIT # "running"
    /\ IF MUTEX_INIT = "new"
       THEN /\ MUTEX_INIT' = "running"
            /\ pc' = [pc EXCEPT ![t] = "lock_write"]
       ELSE /\ MUTEX_INIT' = MUTEX_INIT
            /\ pc' = [pc EXCEPT ![t] = "lock_mutex"]
    /\ UNCHANGED <<cwd, env, mutexWrites, holder, poisoned, LOCKED, cur,
                   guards, panicking, aborted>>

\* The closure: ptr::write(MUTEX.as_mut_ptr(), Mutex::new(())).
LockInitWrite(t) ==
    /\ ~aborted /\ pc[t] = "lock_write"
    /\ mutexWrites' = mutexWrites + 1
    /\ holder' = NoThread
    /\ poisoned' = FALSE
    /\ MUTEX_INIT' = "done"
    /\ pc' = [pc EXCEPT ![t] = "lock_mutex"]
    /\ UNCHANGED <<cwd, env, LOCKED, cur, guards, panicking, aborted>>

\* `(*MUTEX.as_ptr()).lock().unwrap()`: blocks while another thread holds the
\* mutex. On a poisoned mutex lock() returns Err (holding the guard inside
\* the error), unwrap panics and the guard inside the error is released.
LockMutex(t) ==
    /\ ~aborted /\ pc[t] = "lock_mutex"
    /\ holder = NoThread
    /\ IF poisoned
       THEN /\ panicking' = [panicking EXCEPT ![t] = "poison"]
            /\ cur' = [cur EXCEPT ![t] = NoCall]
            /\ pc' = [pc EXCEPT ![t] = "unwind"]
            /\ holder' = holder
       ELSE /\ holder' = t
            /\ pc' = [pc EXCEPT ![t] = "lock_set"]
            /\ UNCHANGED <<panicking, cur>>
    /\ UNCHANGED <<cwd, env, MUTEX_INIT, mutexWrites, poisoned, LOCKED,
                   guards, aborted>>

\* `LOCKED.with(|it| it.set(true))`, and the token that owns the MutexGuard
\* goes back to the constructor that called lock().
LockSetFlag(t, op) ==
    /\ ~aborted /\ pc[t] = "lock_set"
    /\ LOCKED' = [LOCKED EXCEPT ![t] = TRUE]
    /\ cur' = [cur EXCEPT ![t] = Entered(op, TRUE)]
    /\ pc' = [pc EXCEPT ![t] = BodyStart(op)]
    /\ UNCHANGED <<cwd, env, MUTEX_INIT, mutexWrites, holder, poisoned,
                   guards, panicking, aborted>>

\* ------------------------------------------------------------- Pushd::new
\* `let prev_dir = cwd()?`: the read may fail; `?` returns the error, and
\* the local token is dropped on the way out.
PushdReadPrev(t) ==
    /\ ~aborted /\ pc[t] = "pd_prev"
    /\ \E ok \in BOOLEAN :
         IF ok
         THEN /\ cur' = [cur EXCEPT ![t].prev = Some(cwd)]
              /\ pc' = [pc EXCEPT ![t] = "pd_chdir"]
         ELSE /\ cur' = [cur EXCEPT ![t].fatal = "err_prev"]
              /\ pc' = [pc EXCEPT ![t] = "tok_drop"]
    /\ UNCHANGED <<cwd, env, MUTEX_INIT, mutexWrites, holder, poisoned,
                   LOCKED, guards, panicking, aborted>>

\* `set_current_dir(&dir)?`, for the path the caller passed.
PushdChdir(t, path) ==
    /\ ~aborted /\ pc[t] = "pd_chdir"
    /\ LET d == Resolve(cwd, path) IN
         IF d # NoDir
         THEN /\ cwd' = d
              /\ pc' = [pc EXCEPT ![t] = "pd_reread"]
              /\ cur' = [cur EXCEPT ![t].arg = path]
         ELSE /\ cwd' = cwd
              /\ cur' = [cur EXCEPT ![t].fatal = "err_chdir"]
              /\ pc' = [pc EXCEPT ![t] = "tok_drop"]
    /\ UNCHANGED <<env, MUTEX_INIT, mutexWrites, holder, poisoned, LOCKED,
                   guards, panicking, aborted>>

\* `let dir = cwd()?; Ok(Pushd { _guard: guard, prev_dir, dir })`.
PushdReread(t) ==
    /\ ~aborted /\ pc[t] = "pd_reread"
    /\ \E ok \in BOOLEAN :
         IF ok
         THEN /\ cur' = [cur EXCEPT ![t].value = cwd, ![t].cwd0 = NoDir]
              /\ guards' = [guards EXCEPT ![t] =
                              Append(@, GuardOf([cur[t] EXCEPT !.value = cwd]))]
              /\ pc' = [pc EXCEPT ![t] = "pd_ok"]
         ELSE /\ cur' = [cur EXCEPT ![t].fatal = "err_reread", ![t].arg = NoDir]
              /\ guards' = guards
              /\ pc' = [pc EXCEPT ![t] = "tok_drop"]
    /\ UNCHANGED <<cwd, env, MUTEX_INIT, mutexWrites, holder, poisoned,
                   LOCKED, panicking, aborted>>

\* ----------------------------------------------------------- Pushenv::new
\* `let prev_value = std::env::var_os(key)`, for the key the caller passed.
PushenvRead(t, k) ==
    /\ ~aborted /\ pc[t] = "pe_read"
    /\ cur' = [cur EXCEPT ![t].key = k, ![t].prev = env[k]]
    /\ pc' = [pc EXCEPT ![t] = "pe_set"]
    /\ UNCHANGED <<cwd, env, MUTEX_INIT, mutexWrites, holder, poisoned,
                   LOCKED, guards, panicking, aborted>>

\* `std::env::set_var(key, value); Pushenv { .. }`, for the value passed.
PushenvSet(t, v) ==
    /\ ~aborted /\ pc[t] = "pe_set"
    /\ env' = [env EXCEPT ![cur[t].key] = Some(v)]
    /\ cur' = [cur EXCEPT ![t].value = v]
    /\ guards' = [guards EXCEPT ![t] =
                    Append(@, GuardOf([cur[t] EXCEPT !.value = v]))]
    /\ pc' = [pc EXCEPT ![t] = "pe_ok"]
    /\ UNCHANGED <<cwd, MUTEX_INIT, mutexWrites, holder, poisoned, LOCKED,
                   panicking, aborted>>

\* ------------------------------------------------ Drop for GlobalShellLock
\* Mutant: the token is destroyed before the guard validates and restores.
MutDropNextTokenFirst(c, p, unwinding) ==
    CASE p = "dr_read" -> "tok_drop"
      [] p = "dr_restore" -> "idle"
      [] OTHER -> IF unwinding THEN "unwind"
                  ELSE IF c.op = "drop" THEN "dr_restore" ELSE "idle"

\* The order of a destruction. A guard's Drop::drop runs first (the check
\* at "dr_read", then the restoration at "dr_restore"), its fields are
\* dropped after it, the token among them ("tok_drop", "tok_release"). Once
\* the token is destroyed the drop is over (as is the failed pushd whose
\* local token it was), and a panicking thread goes on unwinding.
DropNext(c, p, unwinding) ==
    CASE p = "dr_read" -> "dr_restore"
      [] p = "dr_restore" -> "tok_drop"
      [] OTHER -> IF unwinding THEN "unwind" ELSE "idle"

\* Mutant: the flag is reset whether or not the token owns the mutex.
MutTokenAlwaysResetsFlag(c) == TRUE

\* `if self.guard.is_some() { LOCKED.with(|it| it.set(false)) }`.
TokenResetsFlag(c) == c.owns

\* Mutant: the token that owns the mutex goes on to release it with the
\* flag left set.
MutTokenDropKeepsFlag(t) ==
    /\ ~aborted /\ pc[t] = "tok_drop"
    /\ pc' = [pc EXCEPT ![t] =
                IF cur[t].owns THEN "tok_release"
                ELSE DropNext(cur[t], "tok_drop", Unwinding(t))]
    /\ cur' = [cur EXCEPT ![t] =
                 IF pc'[t] \in {"idle", "unwind"} THEN NoCall ELSE @]
    /\ UNCHANGED <<cwd, env, MUTEX_INIT, mutexWrites, holder, poisoned,
                   LOCKED, guards, panicking, aborted>>

\* Drop::drop of the token (line 122-126); its field `guard` is dropped next.
TokenDrop(t) ==
    /\ ~aborted /\ pc[t] = "tok_drop"
    /\ IF TokenResetsFlag(cur[t])
       THEN /\ LOCKED' = [LOCKED EXCEPT ![t] = FALSE]
            /\ pc' = [pc EXCEPT ![t] = "tok_release"]
            /\ cur' = cur
       ELSE /\ LOCKED' = LOCKED
            /\ pc' = [pc EXCEPT ![t] = DropNext(cur[t], "tok_drop", Unwinding(t))]
            /\ cur' = [cur EXCEPT ![t] =
                         IF pc'[t] \in {"idle", "unwind"} THEN NoCall ELSE @]
    /\ UNCHANGED <<cwd, env, MUTEX_INIT, mutexWrites, holder, poisoned,
                   guards, panicking, aborted>>

\* Mutant: the MutexGuard is leaked instead of dropped, the mutex stays held.
MutTokenReleaseLeaks(t) ==
    /\ ~aborted /\ pc[t] = "tok_release"
    /\ pc' = [pc EXCEPT ![t] = DropNext(cur[t], "tok_release", Unwinding(t))]
    /\ cur' = [cur EXCEPT ![t] =
                 IF pc'[t] \in {"idle", "unwind"} THEN NoCall ELSE @]
    /\ UNCHANGED <<cwd, env, MUTEX_INIT, mutexWrites, holder, poisoned,
                   LOCKED, guards, panicking, aborted>>

\* The MutexGuard inside the token is dropped: the mutex is released, and
\* poisoned when that happens while the thread is panicking.
TokenRelease(t) ==
    /\ ~aborted /\ pc[t] = "tok_release"
    /\ holder' = NoThread
    /\ poisoned' = (poisoned \/ Unwinding(t))
    /\ pc' = [pc EXCEPT ![t] = DropNext(cur[t], "tok_release", Unwinding(t))]
    /\ cur' = [cur EXCEPT ![t] =
                 IF pc'[t] \in {"idle", "unwind"} THEN NoCall ELSE @]
    /\ UNCHANGED <<cwd, env, MUTEX_INIT, mutexWrites, LOCKED, guards,
                   panicking, aborted>>

\* --------------------------------------------- Drop for Pushd and Pushenv
\* The guard at position i of thread t's guards goes out of scope.
BeginDrop(t, i) ==
    /\ ~aborted /\ pc[t] = "idle"
    /\ i \in 1..Len(guards[t])
    /\ LET g == guards[t][i] IN
         cur' = [cur EXCEPT ![t] =
                   [NoCall EXCEPT !.op = "drop", !.kind = g.kind, !.key = g.key,
                                  !.prev = g.prev, !.value = g.value,
                                  !.owns = g.owns]]
    /\ guards' = [guards EXCEPT ![t] = RemoveAt(@, i)]
    /\ pc' = [pc EXCEPT ![t] = "dr_read"]
    /\ UNCHANGED <<cwd, env, MUTEX_INIT, mutexWrites, holder, poisoned,
                   LOCKED, panicking, aborted>>

\* The live value a guard's drop reads: cwd() or std::env::var_os(&self.key).
Live(c) == IF c.kind = "dir" THEN Some(cwd) ELSE env[c.key]

\* The assert_eq of both drops: the live value is the value the guard set.
CheckPasses(live, c) == live = Some(c.value)

\* Mutant: a drop that panics takes its token with it, undestroyed.
MutDropPanicsLeaksToken(t, why) ==
    IF Unwinding(t)
    THEN /\ aborted' = TRUE
         /\ cur' = [cur EXCEPT ![t].fatal = why]
         /\ UNCHANGED <<pc, panicking>>
    ELSE /\ panicking' = [panicking EXCEPT ![t] = why]
         /\ cur' = [cur EXCEPT ![t] = NoCall]
         /\ pc' = [pc EXCEPT ![t] = "unwind"]
         /\ aborted' = aborted

\* A panic raised inside a drop: a first panic starts unwinding, and the
\* guard's fields (its token) are still dropped; a panic raised while the
\* thread is already unwinding aborts the process.
DropPanics(t, why) ==
    IF Unwinding(t)
    THEN /\ aborted' = TRUE
         /\ cur' = [cur EXCEPT ![t].fatal = why]
         /\ UNCHANGED <<pc, panicking>>
    ELSE /\ panicking' = [panicking EXCEPT ![t] = why]
         /\ cur' = [cur EXCEPT ![t].fatal = why]
         /\ pc' = [pc EXCEPT ![t] = "tok_drop"]
         /\ aborted' = aborted

\* `let dir = cwd().unwrap(); assert_eq!(dir, self.dir, ..)` and
\* `let value = var_os(&self.key); assert_eq!(value.as_ref(), Some(&self.value), ..)`.
DropCheck(t) ==
    /\ ~aborted /\ pc[t] = "dr_read"
    /\ \E ok \in BOOLEAN :
         /\ cur[t].kind = "env" => ok
         /\ IF ~ok THEN DropPanics(t, "unwrap")
            ELSE IF ~CheckPasses(Live(cur[t]), cur[t]) THEN DropPanics(t, "assert")
            ELSE /\ pc' = [pc EXCEPT ![t] = DropNext(cur[t], "dr_read", FALSE)]
                 /\ UNCHANGED <<cur, panicking, aborted>>
    /\ UNCHANGED <<cwd, env, MUTEX_INIT, mutexWrites, holder, poisoned,
                   LOCKED, guards>>

\* `match &self.prev_value { Some(it) => set_var(&self.key, &it),
\*                           None => remove_var(&self.key) }`.
RestoreEnv(e, c) ==
    IF c.prev # None
    THEN [e EXCEPT ![c.key] = Some(c.prev[1])]
    ELSE [e EXCEPT ![c.key] = None]

\* `set_current_dir(&self.prev_dir)`: the directory entered, or NoDir.
RestoreDir(c) == Resolve(cwd, c.prev[1])

\* The restoration of both drops; a failed set_current_dir is unwrapped.
DropRestore(t) ==
    /\ ~aborted /\ pc[t] = "dr_restore"
    /\ IF cur[t].kind = "env"
       THEN /\ env' = RestoreEnv(env, cur[t])
            /\ pc' = [pc EXCEPT ![t] = DropNext(cur[t], "dr_restore", FALSE)]
            /\ cur' = [cur EXCEPT ![t] = IF pc'[t] = "idle" THEN NoCall ELSE @]
            /\ UNCHANGED <<cwd, panicking, aborted>>
       ELSE IF RestoreDir(cur[t]) # NoDir
       THEN /\ cwd' = RestoreDir(cur[t])
            /\ pc' = [pc EXCEPT ![t] = DropNext(cur[t], "dr_restore", FALSE)]
            /\ cur' = [cur EXCEPT ![t] = IF pc'[t] = "idle" THEN NoCall ELSE @]
            /\ UNCHANGED <<env, panicking, aborted>>
       ELSE /\ DropPanics(t, "unwrap")
            /\ UNCHANGED <<cwd, env>>
    /\ UNCHANGED <<MUTEX_INIT, mutexWrites, holder, poisoned, LOCKED, guards>>

\* Unwinding drops the thread's remaining guards, innermost first; with
\* none left the thread has ended.
Unwind(t) ==
    /\ ~aborted /\ pc[t] = "unwind"
    /\ IF guards[t] = <<>>
       THEN /\ pc' = [pc EXCEPT ![t] = "dead"]
            /\ cur' = [cur EXCEPT ![t] = NoCall]
            /\ guards' = guards
       ELSE LET g == guards[t][Len(guards[t])] IN
            /\ cur' = [cur EXCEPT ![t] =
                         [NoCall EXCEPT !.op = "drop", !.kind = g.kind,
                                        !.key = g.key, !.prev = g.prev,
                                        !.value = g.value, !.owns = g.owns]]
            /\ guards' = [guards EXCEPT ![t] = SubSeq(@, 1, Len(@) - 1)]
            /\ pc' = [pc EXCEPT ![t] = "dr_read"]
    /\ UNCHANGED <<cwd, env, MUTEX_INIT, mutexWrites, holder, poisoned,
                   LOCKED, panicking, aborted>>

\* pushd or pushenv returns its guard to the caller.
Return(t) ==
    /\ ~aborted /\ pc[t] \in {"pd_ok", "pe_ok"}
    /\ pc' = [pc EXCEPT ![t] = "idle"]
    /\ cur' = [cur EXCEPT ![t] = NoCall]
    /\ UNCHANGED <<cwd, env, MUTEX_INIT, mutexWrites, holder, poisoned,
                   LOCKED, guards, panicking, aborted>>

\* ------------------------------------------- code that bypasses the guards
UnguardedChdir(d) ==
    /\ ~aborted /\ d # cwd
    /\ cwd' = d
    /\ UNCHANGED <<env, MUTEX_INIT, mutexWrites, holder, poisoned, LOCKED,
                   pc, cur, guards, panicking, aborted>>

UnguardedSetVar(k, v) ==
    /\ ~aborted /\ env[k] # Some(v)
    /\ env' = [env EXCEPT ![k] = Some(v)]
    /\ UNCHANGED <<cwd, MUTEX_INIT, mutexWrites, holder, poisoned, LOCKED,
                   pc, cur, guards, panicking, aborted>>

UnguardedRemoveVar(k) ==
    /\ ~aborted /\ env[k] # None
    /\ env' = [env EXCEPT ![k] = None]
    /\ UNCHANGED <<cwd, MUTEX_INIT, mutexWrites, holder, poisoned, LOCKED,
                   pc, cur, guards, panicking, aborted>>

\* --------------------------------------------------------- specifications
\* The steps every thread takes whatever its discipline.
Step(t) ==
    \/ \E op \in {"pushd", "pushenv"} : Call(t, op)
    \/ LockCallOnce(t)
    \/ LockInitWrite(t)
    \/ LockMutex(t)
    \/ \E op \in {"pushd", "pushenv"} : LockSetFlag(t, op)
    \/ PushdReadPrev(t)
    \/ \E path \in Paths : PushdChdir(t, path)
    \/ PushdReread(t)
    \/ \E k \in GuardedKeys : PushenvRead(t, k)
    \/ \E v \in Vals : PushenvSet(t, v)
    \/ DropCheck(t)
    \/ DropRestore(t)
    \/ TokenDrop(t)
    \/ TokenRelease(t)
    \/ Unwind(t)
    \/ Return(t)

\* Guards dropped in any order.
DropAny(t) == \E i \in 1..Len(guards[t]) : BeginDrop(t, i)

\* Guards dropped in reverse order of creation.
DropLast(t) == BeginDrop(t, Len(guards[t]))

Unguarded ==
    \/ \E d \in Dirs : UnguardedChdir(d)
    \/ \E k \in GuardedKeys, v \in Vals : UnguardedSetVar(k, v)
    \/ \E k \in GuardedKeys : UnguardedRemoveVar(k)

\* Guards dropped in reverse order of creation, with code that bypasses
\* the guards running beside the threads.
Next ==
    \/ \E t \in Threads : Step(t)
    \/ \E t \in Threads : DropLast(t)
    \/ Unguarded

Spec == Init /\ [][Next]_vars

\* Guards dropped in reverse order of creation, and no unguarded code.
NextGuarded ==
    \/ \E t \in Threads : Step(t)
    \/ \E t \in Threads : DropLast(t)

SpecGuarded == Init /\ [][NextGuarded]_vars

\* Guards dropped in any order, and no unguarded code.
NextAnyOrder ==
    \/ \E t \in Threads : Step(t)
    \/ \E t \in Threads : DropAny(t)

SpecAnyOrder == Init /\ [][NextAnyOrder]_vars

\* ------------------------------------------------------------- vocabulary
\* The thread is inside the drop of one of its guards.
Dropping(t) ==
    /\ cur[t].op = "drop"
    /\ pc[t] \in {"dr_read", "dr_restore", "tok_drop", "tok_release"}

\* The thread has a live guard: one it holds, or one whose drop has begun
\* and whose token is not destroyed yet.
HasLiveGuard(t) == guards[t] # <<>> \/ Dropping(t)

\* lock() has returned to Pushd::new or Pushenv::new, which has not returned.
InConstructor(t) ==
    \/ pc[t] \in {"pd_prev", "pd_chdir", "pd_reread", "pe_read", "pe_set"}
    \/ cur[t].op = "pushd" /\ pc[t] \in {"tok_drop", "tok_release"}

\* The thread is inside lock(), past the read of the flag.
InLockSlowPath(t) ==
    pc[t] \in {"lock_once", "lock_write", "lock_mutex", "lock_set"}

\* The token of the guard being dropped is not destroyed yet.
BeforeToken(t) == Dropping(t) /\ pc[t] \in {"dr_read", "dr_restore"}

\* The guard being dropped passed its check and has restored.
Restored(t) ==
    Dropping(t) /\ pc[t] \in {"tok_drop", "tok_release"} /\ ~Unwinding(t)

\* Pushd::new is on its way out with an error, its token not destroyed yet.
PushdFailing(t) ==
    cur[t].op = "pushd" /\ pc[t] \in {"tok_drop", "tok_release"}

Top(s) == s[Len(s)]

\* The guard that took the mutex for the thread's session is live: held, or
\* being dropped with its token not destroyed yet.
OwnerLive(t) ==
    \/ \E i \in 1..Len(guards[t]) : guards[t][i].owns
    \/ Dropping(t) /\ cur[t].owns /\ pc[t] \in {"dr_read", "dr_restore", "tok_drop"}

\* Some guard of the thread is live and its token not destroyed yet.
LiveBeforeToken(t) ==
    \/ guards[t] # <<>>
    \/ Dropping(t) /\ pc[t] \in {"dr_read", "dr_restore", "tok_drop"}

\* What a step of thread t out of a guard's check may do: cwd() could not
\* be read; or the live value is not the guard's and the drop panics,
\* writing nothing; or it is the guard's and the drop goes on to restore.
CheckOutcome(t) ==
    LET c == cur[t] IN
    \/ c.kind = "dir" /\ cur'[t].fatal = "unwrap"
    \/ /\ Live(c) # Some(c.value)
       /\ cur'[t].fatal = "assert"
       /\ aborted' \/ (panicking'[t] = "assert" /\ pc'[t] = "tok_drop")
       /\ UNCHANGED <<cwd, env>>
    \/ /\ Live(c) = Some(c.value)
       /\ pc'[t] = "dr_restore" /\ cur'[t].fatal = "none"
       /\ panicking'[t] = panicking[t] /\ ~aborted'

\* What a step of thread t out of a guard's restoration leaves behind.
RestoreOutcome(t) ==
    LET c == cur[t] IN
    pc'[t] = "tok_drop" /\ ~aborted' /\ panicking'[t] = panicking[t]
        => IF c.kind = "dir" THEN Some(cwd') = c.prev /\ env' = env
           ELSE env'[c.key] = c.prev /\ cwd' = cwd

\* Two guards over the same resource: the working directory, or one key.
SameResource(g, h) == g.kind = h.kind /\ g.key = h.key

\* The position of the guard nested directly inside which the guard at
\* position j of s was created over the same resource, or 0.
Below(s, j) ==
    LET older == {i \in 1..(j - 1) : SameResource(s[i], s[j])}
    IN IF older = {} THEN 0 ELSE CHOOSE i \in older : \A k \in older : k <= i

\* The guard at position j of s is the innermost over its resource.
Innermost(s, j) == \A k \in (j + 1)..Len(s) : ~SameResource(s[k], s[j])

\* The thread is blocked in `(*MUTEX.as_ptr()).lock()`: another thread holds
\* the mutex.
WaitsForMutex(t) == pc[t] = "lock_mutex" /\ holder \notin {NoThread, t}

\* The thread is blocked in call_once while another thread's first call
\* runs the closure that writes the mutex.
WaitsForInit(t) == pc[t] = "lock_once" /\ MUTEX_INIT = "running"

\* ----------------------------------------------------------------- claims
\* C1: with guards dropped in reverse order of creation, no two threads
\* have a live guard at once, and no thread is past lock() while another
\* thread has a live guard.
C1_CrossThreadExclusion ==
    \A a \in Threads : \A b \in Threads \ {a} :
        HasLiveGuard(a) => ~HasLiveGuard(b) /\ ~InConstructor(b)

\* Thread b waits in lock() for the mutex while thread a holds an outer
\* guard and a guard nested inside it.
C1_Witness ==
    \E a \in Threads : \E b \in Threads \ {a} :
        /\ Len(guards[a]) = 2 /\ guards[a][1].owns /\ ~guards[a][2].owns
        /\ pc[b] = "lock_mutex" /\ holder = a

\* C2: with guards dropped in reverse order of creation and no unguarded
\* code, no drop (of a thread that is not already unwinding from another
\* failure) finds the live value different from the value its guard set.
C2_AssertNeverFires ==
    \A t \in Threads :
        pc[t] = "dr_read" /\ ~Unwinding(t)
            => CheckPasses(Live(cur[t]), cur[t])

\* C3: pushd(D) leaves the process in the canonical form of D, which is the
\* directory the guard records; the drop that follows puts back the
\* directory read before the change.
C3_DirRoundTrip ==
    \A t \in Threads :
        /\ pc[t] = "pd_chdir" => cur[t].prev = Some(cwd)
        /\ pc[t] = "pd_reread" => cwd = Resolve(cur[t].prev[1], cur[t].arg)
        /\ pc[t] = "pd_ok" =>
              /\ cwd = Resolve(cur[t].prev[1], cur[t].arg)
              /\ cwd \in Dirs
              /\ Top(guards[t]).value = cwd
              /\ Top(guards[t]).prev = cur[t].prev
        /\ Restored(t) /\ cur[t].kind = "dir" => Some(cwd) = cur[t].prev

\* A directory guard that moved the process elsewhere has put it back.
C3_Witness ==
    \E t \in Threads :
        /\ Restored(t) /\ cur[t].kind = "dir"
        /\ cur[t].prev = Some("/a") /\ cur[t].value = "/a/b" /\ cwd = "/a"

\* C4: pushenv(K, V) leaves K set to V; the drop that follows puts back
\* what K held before: the prior value, empty or not, or no variable at
\* all. No other key is touched.
C4_EnvRoundTrip ==
    /\ env["OTHER"] = Some("x")
    /\ \A t \in Threads :
        /\ pc[t] = "pe_set" => cur[t].prev = env[cur[t].key]
        /\ pc[t] = "pe_ok" =>
              /\ env[cur[t].key] = Some(cur[t].value)
              /\ Top(guards[t]) = GuardOf(cur[t])
        /\ Restored(t) /\ cur[t].kind = "env" => env[cur[t].key] = cur[t].prev

\* An environment guard over a present but empty variable has put the
\* empty value back.
C4_Witness ==
    \E t \in Threads :
        /\ Restored(t) /\ cur[t].kind = "env"
        /\ cur[t].prev = Some("") /\ cur[t].value = "x"
        /\ env[cur[t].key] = Some("")

\* C5: a thread that holds a guard has its flag set, never enters the part
\* of lock() that takes the mutex, and gets a token that owns nothing.
C5_NestingNeverBlocks ==
    \A t \in Threads :
        /\ InLockSlowPath(t) => ~LOCKED[t] /\ guards[t] = <<>>
        /\ guards[t] # <<>> => LOCKED[t]
        /\ InConstructor(t) /\ guards[t] # <<>> => ~cur[t].owns
        /\ \A i \in 2..Len(guards[t]) : ~guards[t][i].owns

\* A thread is creating a guard inside its own session, with a token that
\* owns nothing, while another thread waits for the mutex.
C5_Witness ==
    \E t \in Threads : \E u \in Threads \ {t} :
        /\ guards[t] # <<>> /\ InConstructor(t) /\ ~cur[t].owns
        /\ pc[u] = "lock_mutex"

\* C6: a drop whose read of the live value differs from the value its guard
\* set panics and restores nothing; a drop whose read agrees passes the
\* check and restores the prior value.
C6_InterferenceDetected ==
    [][\A t \in Threads :
         /\ pc[t] = "dr_read" /\ (pc'[t] # "dr_read" \/ aborted')
               => CheckOutcome(t)
         /\ pc[t] = "dr_restore" /\ pc'[t] # "dr_restore"
               => RestoreOutcome(t)]_vars

\* Unguarded code removed the guarded variable and the guard's drop
\* panicked on its assertion.
C6_Witness ==
    \E t \in Threads :
        /\ Dropping(t) /\ pc[t] = "tok_drop" /\ panicking[t] = "assert"
        /\ cur[t].kind = "env" /\ cur[t].fatal = "assert"
        /\ env[cur[t].key] = None

\* C7: when pushd returns an error, the working directory is what it was
\* when the call began its work.
C7_FailedPushdLeavesCwd ==
    \A t \in Threads : PushdFailing(t) => cwd = cur[t].cwd0

\* C8: a thread waiting for the mutex in lock() either keeps waiting or
\* takes it; lock() never panics, not even after a drop that owned the
\* mutex panicked on its assertion (runs in which a drop could not read
\* the working directory are left aside).
C8_LockNeverPanics ==
    [][\A t \in Threads :
         /\ pc[t] = "lock_mutex"
         /\ \A u \in Threads : panicking[u] # "unwrap"
         => pc'[t] \in {"lock_mutex", "lock_set"}]_vars

\* C9 as stated: while any guard of a thread is live the thread holds the
\* mutex and its flag is set, and no other thread has or creates a guard,
\* in whatever order the thread drops its guards (threads unwinding from a
\* panic are left aside).
C9_AnyGuardHoldsSession ==
    \A t \in Threads :
        LiveBeforeToken(t) /\ ~Unwinding(t) =>
            /\ holder = t /\ LOCKED[t]
            /\ \A u \in Threads \ {t} : ~InConstructor(u) /\ ~OwnerLive(u)

\* C9 as amended: while the guard that took the mutex is live the thread
\* holds the mutex and its flag is set, no other thread is past lock(), and
\* every guard the thread creates meanwhile rides on that session.
C9_OwnerHoldsSession ==
    \A t \in Threads :
        OwnerLive(t) =>
            /\ holder = t /\ LOCKED[t]
            /\ \A u \in Threads \ {t} : ~InConstructor(u) /\ ~OwnerLive(u)
            /\ InConstructor(t) => ~cur[t].owns

\* A nested guard is being dropped, its restoration done, while the guard
\* that took the mutex is still held.
C9_Witness ==
    \E t \in Threads :
        /\ Dropping(t) /\ ~cur[t].owns /\ pc[t] = "tok_drop"
        /\ Len(guards[t]) = 1 /\ guards[t][1].owns

\* C10: a drop validates and restores while its token is intact, and has
\* restored the prior value by the time the token is destroyed and the
\* mutex released; the mutex is never free while a drop is still short of
\* its restoration.
C10_RestoreBeforeRelease ==
    \A t \in Threads :
        /\ BeforeToken(t) /\ cur[t].owns => holder = t /\ LOCKED[t]
        /\ Restored(t) => Live(cur[t]) = cur[t].prev
        /\ holder = NoThread => ~BeforeToken(t) /\ guards[t] = <<>>

\* The outermost guard has restored and is about to release the mutex
\* another thread waits for.
C10_Witness ==
    \E t \in Threads : \E u \in Threads \ {t} :
        /\ Restored(t) /\ pc[t] = "tok_release" /\ cur[t].owns
        /\ Live(cur[t]) = cur[t].prev /\ cur[t].prev # Some(cur[t].value)
        /\ pc[u] = "lock_mutex"

\* C11: a token that owns the mutex resets its thread's flag first and
\* releases the mutex afterwards: the flag goes down only while its thread
\* still holds the mutex, and the mutex leaves a thread only when that
\* thread's flag is already down.
C11_FlagResetBeforeRelease ==
    [][\A t \in Threads :
         /\ LOCKED[t] /\ ~LOCKED'[t] =>
               /\ pc[t] = "tok_drop" /\ cur[t].owns
               /\ holder = t /\ holder' = t /\ pc'[t] = "tok_release"
         /\ holder = t /\ holder' # t =>
               /\ pc[t] = "tok_release" /\ holder' = NoThread
               /\ ~LOCKED[t] /\ ~LOCKED'[t]]_vars

\* The flag of the thread that ends its session is down, the mutex still
\* its own, and another thread waits for it.
C11_Witness ==
    \E t \in Threads : \E u \in Threads \ {t} :
        /\ pc[t] = "tok_release" /\ ~LOCKED[t] /\ holder = t
        /\ cur[t].op = "drop" /\ ~Unwinding(t)
        /\ pc[u] = "lock_mutex"

\* C12: destroying a token that owns nothing changes neither a flag nor the
\* mutex: the thread's flag stays set and the mutex stays its own. Such a
\* token never reaches the release of the mutex; only a token that took the
\* mutex does.
C12_NestedTokenIsNoOp ==
    [][\A t \in Threads :
         pc[t] \in {"tok_drop", "tok_release"} /\ pc'[t] # pc[t]
         /\ ~cur[t].owns =>
               /\ pc[t] = "tok_drop" /\ pc'[t] # "tok_release"
               /\ LOCKED' = LOCKED /\ holder' = holder /\ poisoned' = poisoned
               /\ LOCKED[t] /\ holder = t]_vars

\* The token of a nested guard is about to be destroyed while the outer
\* guard is held and another thread waits for the mutex.
C12_Witness ==
    \E t \in Threads : \E u \in Threads \ {t} :
        /\ pc[t] = "tok_drop" /\ cur[t].op = "drop" /\ ~cur[t].owns
        /\ Len(guards[t]) = 1 /\ guards[t][1].owns /\ LOCKED[t]
        /\ pc[u] = "lock_mutex"

\* C13: when pushd returns an error its token is destroyed first: a call
\* that took the mutex returns with the thread's flag down and the mutex
\* free, a call nested in a session returns with the session still held,
\* and either way the thread holds the guards it held before.
C13_FailedPushdLeaksNoLock ==
    [][\A t \in Threads :
         PushdFailing(t) /\ pc'[t] = "idle" =>
            /\ guards'[t] = guards[t]
            /\ IF cur[t].owns
               THEN /\ pc[t] = "tok_release" /\ guards[t] = <<>>
                    /\ ~LOCKED'[t] /\ holder' = NoThread /\ ~poisoned'
               ELSE /\ pc[t] = "tok_drop" /\ guards[t] # <<>>
                    /\ LOCKED'[t] /\ holder' = t /\ holder = t]_vars

\* A pushd that took the mutex failed to enter its directory and is about
\* to give the mutex back to a thread that waits for it.
C13_Witness ==
    \E t \in Threads : \E u \in Threads \ {t} :
        /\ PushdFailing(t) /\ cur[t].fatal = "err_chdir" /\ cur[t].owns
        /\ pc[t] = "tok_release" /\ ~LOCKED[t]
        /\ pc[u] = "lock_mutex"

\* C15: at every step of lock() and of a token's destruction, at most one
\* thread's flag is set, a thread whose flag is set holds the mutex, and a
\* thread whose call skipped the mutex skipped it on its own flag.
C15_FlagImpliesHolder ==
    /\ Cardinality({t \in Threads : LOCKED[t]}) <= 1
    /\ \A t \in Threads :
         /\ LOCKED[t] => holder = t
         /\ pc[t] = "lock_set" => holder = t /\ ~LOCKED[t]
         /\ pc[t] = "tok_release" => holder = t /\ ~LOCKED[t]
         /\ InConstructor(t) /\ ~cur[t].owns => LOCKED[t] /\ holder = t

\* Between the two steps of lock(): one thread has taken the mutex and not
\* set its flag yet, while another thread is entering lock().
C15_Witness ==
    \E t \in Threads : \E u \in Threads \ {t} :
        /\ pc[t] = "lock_set" /\ holder = t /\ ~LOCKED[t]
        /\ pc[u] = "lock_mutex"

\* C18: the mutex is written at most once and by one thread at a time, the
\* Once is done exactly when the write has happened, no thread reaches for
\* the mutex, holds it or has its flag set before the write is complete,
\* and a written mutex is never written again.
C18_MutexWrittenOnce ==
    /\ mutexWrites <= 1
    /\ (MUTEX_INIT = "done") = (mutexWrites = 1)
    /\ (MUTEX_INIT = "running") = (\E t \in Threads : pc[t] = "lock_write")
    /\ Cardinality({t \in Threads : pc[t] = "lock_write"}) <= 1
    /\ MUTEX_INIT # "done" => holder = NoThread /\ ~poisoned
    /\ \A t \in Threads :
         /\ pc[t] \in {"lock_mutex", "lock_set"} => mutexWrites = 1
         /\ LOCKED[t] \/ guards[t] # <<>> => mutexWrites = 1
         /\ pc[t] = "lock_once" => guards[t] = <<>> /\ ~LOCKED[t]

\* Two threads made their first calls together: one has written the mutex
\* and goes on to lock it, the other, which arrived before the write was
\* done, is still in call_once.
C18_Witness ==
    \E t \in Threads : \E u \in Threads \ {t} :
        /\ pc[t] = "lock_mutex" /\ MUTEX_INIT = "done" /\ mutexWrites = 1
        /\ pc[u] = "lock_once"

\* C17: a drop whose assertion fails writes nothing to the guarded resource,
\* neither at the failed check nor afterwards, and its token is destroyed
\* all the same: a token that owns the mutex resets the flag and releases
\* the mutex, so a thread that has ended holds neither (unless the panic
\* struck a thread already unwinding, which aborts the process).
C17_FailedDropStillReleases ==
    [][\A t \in Threads :
         /\ pc[t] = "dr_read" /\ cur'[t].fatal = "assert" =>
               /\ cwd' = cwd /\ env' = env
               /\ aborted' \/ (pc'[t] = "tok_drop" /\ cur'[t].owns = cur[t].owns)
         /\ Dropping(t) /\ cur[t].fatal = "assert" /\ pc'[t] # pc[t] =>
               /\ cwd' = cwd /\ env' = env /\ guards' = guards
               /\ pc[t] = "tok_drop" =>
                     IF cur[t].owns
                     THEN pc'[t] = "tok_release" /\ ~LOCKED'[t]
                     ELSE pc'[t] = "unwind" /\ LOCKED' = LOCKED
               /\ pc[t] = "tok_release" =>
                     pc'[t] = "unwind" /\ holder = t /\ holder' = NoThread
         /\ pc'[t] = "dead" => holder' # t /\ ~LOCKED'[t]]_vars

\* A guard that owns the mutex found the variable changed behind its back:
\* the changed value is still there, the flag is down, and the mutex is
\* about to be released to a thread that waits for it.
C17_Witness ==
    \E t \in Threads : \E u \in Threads \ {t} :
        /\ Dropping(t) /\ cur[t].fatal = "assert" /\ cur[t].owns
        /\ pc[t] = "tok_release" /\ ~LOCKED[t] /\ holder = t
        /\ Live(cur[t]) # Some(cur[t].value) /\ Live(cur[t]) # cur[t].prev
        /\ pc[u] = "lock_mutex"

\* C16: guards nested over one resource by a thread unwind like a stack:
\* each recorded as prior value what the guard below it had set, the
\* resource holds what the innermost live guard set, every drop finds the
\* value its guard set, and a finished drop leaves the value found before
\* its guard was created.
C16_NestedUnwindLikeStack ==
    \A t \in Threads :
        ~Unwinding(t) =>
            /\ \A j \in 1..Len(guards[t]) :
                  Below(guards[t], j) # 0 =>
                      guards[t][j].prev =
                          Some(guards[t][Below(guards[t], j)].value)
            /\ pc[t] = "idle" =>
                  \A j \in 1..Len(guards[t]) :
                      Innermost(guards[t], j) =>
                          Live(guards[t][j]) = Some(guards[t][j].value)
            /\ pc[t] = "dr_read" /\ Dropping(t) =>
                  Live(cur[t]) = Some(cur[t].value)
            /\ Restored(t) => Live(cur[t]) = cur[t].prev

\* C14: with guards dropped in reverse order of creation and no unguarded
\* code, a thread inside a call or a drop can always take its next step
\* unless it waits for the mutex another thread holds (or, on the first
\* calls, for the write of the mutex to finish); whoever it waits for can
\* itself move on; and no thread that set out to create a guard ends in a
\* panic of lock() instead of getting its guard (runs in which a drop
\* could not read the working directory are left aside).
C14_EveryCallGetsItsGuard ==
    ~aborted =>
        \A t \in Threads :
            /\ pc[t] \notin {"idle", "dead"} =>
                  \/ ENABLED Step(t)
                  \/ WaitsForMutex(t)
                  \/ WaitsForInit(t)
            /\ WaitsForMutex(t) =>
                  /\ pc[holder] # "dead"
                  /\ ENABLED (Step(holder) \/ DropLast(holder))
            /\ WaitsForInit(t) => \E u \in Threads : pc[u] = "lock_write"
            /\ (\A u \in Threads : panicking[u] # "unwrap")
                  => panicking[t] # "poison"
====
